---- MODULE Spec2Model ----
(***************************************************************************)
(* Model of src/app.py (address-mapper): the address validator, the        *)
(* geocoder initialisation, the per-record geocoding loop of               *)
(* process_addresses, the driver main and the map render fallback of       *)
(* display_map.                                                            *)
(*                                                                         *)
(* Python values are encoded as follows.                                   *)
(*   - a str is a sequence of one-character strings;                       *)
(*   - a CSV cell is a record [t |-> "str", v |-> chars] or the float NaN  *)
(*     pandas produces for an empty cell, [t |-> "float", v |-> <<>>];     *)
(*   - None is <<>> and a present optional value x is <<x>>.               *)
(***************************************************************************)
EXTENDS Integers, Sequences, FiniteSets, TLC

VARIABLES
    pc,            \* position of main / process_addresses / display_map
    secrets,       \* TRUE iff 'GOOGLE_API_KEY' is in st.secrets
    geocode_func,  \* what init_geocoder returned: "None", "nominatim", "google"
    df,            \* the uploaded table: [columns, rows]
    i,             \* index label of the row the loop is at (0-based position)
    result,        \* the dict being built for the current row
    location,      \* what geocode_func returned for the current row
    exc,           \* the exception being handled, <<>> if none
    results,       \* list of finished result dicts
    stats,         \* the four counters
    progress,      \* values passed to progress_bar.progress, as <<i+1, len(df)>>
    calls,         \* log of geocode_func calls: [row, provider, outcome]
    started,       \* process_addresses was entered
    returned,      \* process_addresses returned
    tables,        \* result tables shown by main: <<>> or <<[success, failed]>>
    valid_df,      \* display_map's table of rows with coordinates
    ui,            \* log of renderer attempts and messages of display_map
    v_address,     \* validator harness: the argument
    v_result       \* validator harness: <<>> before the call, <<bool>> after

vars == <<pc, secrets, geocode_func, df, i, result, location, exc, results,
          stats, progress, calls, started, returned, tables, valid_df, ui,
          v_address, v_result>>

(* ------------------------------ bounds -------------------------------- *)
MaxRecords == 3      \* rows in an uploaded table
MaxLen == 4          \* characters in an address given to the validator

(* ------------------------------ strings ------------------------------- *)
Digits == {"1"}
Letters == {"a", "n"}
Whitespace == {" "}
Alphabet == {"1", "a", " ", ",", "-"}

None == <<>>
Some(x) == <<x>>

StrCell(chars) == [t |-> "str", v |-> chars]
NaN == [t |-> "float", v |-> <<>>]

\* isinstance(address, str)
isinstance_str(a) == a.t = "str"

\* str(x): a str is itself, the float NaN prints as 'nan'
str(a) == IF a.t = "str" THEN a ELSE StrCell(<<"n", "a", "n">>)

RECURSIVE lstrip(_)
lstrip(s) == IF s # <<>> /\ Head(s) \in Whitespace THEN lstrip(Tail(s)) ELSE s

RECURSIVE rstrip(_)
rstrip(s) ==
    IF s # <<>> /\ s[Len(s)] \in Whitespace
    THEN rstrip(SubSeq(s, 1, Len(s) - 1)) ELSE s

\* address.strip()
strip(a) == StrCell(rstrip(lstrip(a.v)))

\* s.split(','): the list of the parts between the commas
RECURSIVE split(_)
split(s) ==
    IF \A k \in 1..Len(s) : s[k] # ","
    THEN <<s>>
    ELSE LET k == CHOOSE j \in 1..Len(s) :
                      s[j] = "," /\ \A h \in 1..(j - 1) : s[h] # ","
         IN <<SubSeq(s, 1, k - 1)>> \o split(SubSeq(s, k + 1, Len(s)))

isdigit(c) == c \in Digits
isalpha(c) == c \in Letters

(* ----------------------------- validator ------------------------------ *)
\* variant: two segments are accepted
is_valid_address_two_parts(address) ==
    IF ~isinstance_str(address) THEN FALSE
    ELSE LET parts == split(address.v)
         IN /\ Len(parts) >= 2
            /\ \E k \in 1..Len(address.v) : isdigit(address.v[k])
            /\ \E k \in 1..Len(address.v) : isalpha(address.v[k])

\* variant: a digit or a letter is enough
is_valid_address_or(address) ==
    IF ~isinstance_str(address) THEN FALSE
    ELSE LET parts == split(address.v)
         IN /\ Len(parts) >= 3
            /\ \/ \E k \in 1..Len(address.v) : isdigit(address.v[k])
               \/ \E k \in 1..Len(address.v) : isalpha(address.v[k])

is_valid_address(address) ==
    IF ~isinstance_str(address) THEN FALSE
    ELSE LET parts == split(address.v)
         IN /\ Len(parts) >= 3
            /\ \E k \in 1..Len(address.v) : isdigit(address.v[k])
            /\ \E k \in 1..Len(address.v) : isalpha(address.v[k])
(* ------------------------------ inputs -------------------------------- *)
Names == {"n1", "n2"}

\* cells of the 'address' column: a well-formed address with surrounding
\* blanks, one without a digit, one with a single segment, an empty cell
AddrPool == { StrCell(<<" ", "1", "a", ",", ",", " ">>),
              StrCell(<<"a", ",", ",">>),
              StrCell(<<"1", "a">>),
              NaN }

Rows == [name : Names, address : AddrPool]

RECURSIVE SeqsUpTo(_, _)
SeqsUpTo(S, n) ==
    IF n = 0 THEN {<<>>}
    ELSE LET shorter == SeqsUpTo(S, n - 1)
         IN shorter \cup
            {Append(q, x) : q \in {r \in shorter : Len(r) = n - 1}, x \in S}

Tables == SeqsUpTo(Rows, MaxRecords)

\* what the file uploader and pd.read_csv can hand to main
Uploads ==
    {[kind |-> "none", columns |-> {}, rows |-> <<>>],
     [kind |-> "unreadable", columns |-> {}, rows |-> <<>>]}
    \cup {[kind |-> "table", columns |-> c, rows |-> <<>>] :
             c \in {{"name"}, {"address"}, {}}}
    \cup {[kind |-> "table", columns |-> {"name", "address"}, rows |-> r] :
             r \in Tables}

\* exceptions the geocode call can raise, and the one reading a location can
GeocodeExceptions == {"GeocoderUnavailable", "GeocoderTimedOut"}
ReadException == "AttributeError"

TheLocation == [latitude |-> 48, longitude |-> 2, raw |-> "raw"]

CallOutcomes == {"found", "none"} \cup GeocodeExceptions

(* ------------------------------ helpers ------------------------------- *)
ZeroStats == [success |-> 0, invalid_format |-> 0, no_results |-> 0,
              errors |-> 0]

NoResult == [name |-> "", address |-> StrCell(<<>>), latitude |-> None,
             longitude |-> None, status |-> "", raw |-> None,
             error_details |-> None]

\* f'Error: {str(e)}'
ErrorStatus(e) == "Error: " \o e

\* lines 129-136: the dict a row starts with
NewResult(row) ==
    [name |-> row.name,
     address |-> strip(str(row.address)),
     latitude |-> None,
     longitude |-> None,
     status |-> "Pending",
     raw |-> None,
     error_details |-> None]

\* lines 150-155: result.update({...}) with the location's fields
UpdateFound(r, loc) ==
    [r EXCEPT !.latitude = Some(loc.latitude),
              !.longitude = Some(loc.longitude),
              !.status = "Success",
              !.raw = Some(loc.raw)]

\* lines 162-165: result.update({...}) in the except clause
UpdateError(r, e) ==
    [r EXCEPT !.status = ErrorStatus(e), !.error_details = Some(e)]

RECURSIVE SelectRows(_, _)
SelectRows(s, keep) ==
    IF s = <<>> THEN <<>>
    ELSE IF keep[1] THEN <<Head(s)>> \o SelectRows(Tail(s), Tail(keep))
    ELSE SelectRows(Tail(s), Tail(keep))

\* df.dropna(subset=['latitude', 'longitude'])
dropna(rs) ==
    SelectRows(rs, [k \in 1..Len(rs) |->
                       rs[k].latitude # None /\ rs[k].longitude # None])

\* geo_df[geo_df['status'] == 'Success'] and its complement
success_df(rs) ==
    SelectRows(rs, [k \in 1..Len(rs) |-> rs[k].status = "Success"])
failed_df(rs) ==
    SelectRows(rs, [k \in 1..Len(rs) |-> rs[k].status # "Success"])

(* --------------------------- init_geocoder ---------------------------- *)
init_geocoder(nominatimOk, hasKey, googleOk) ==
    IF nominatimOk THEN "nominatim"
    ELSE IF hasKey /\ googleOk THEN "google"
    ELSE "None"

(* ------------------------------- Init --------------------------------- *)
Idle ==
    /\ geocode_func = "None"
    /\ df = [columns |-> {}, rows |-> <<>>]
    /\ i = 0
    /\ result = NoResult
    /\ location = None
    /\ exc = None
    /\ results = <<>>
    /\ stats = ZeroStats
    /\ progress = <<>>
    /\ calls = <<>>
    /\ started = FALSE
    /\ returned = FALSE
    /\ tables = None
    /\ valid_df = <<>>
    /\ ui = <<>>

Init ==
    /\ pc = "main"
    /\ secrets \in BOOLEAN
    /\ Idle
    /\ v_address = NaN
    /\ v_result = None

(* ------------------------------- main --------------------------------- *)
\* lines 189-193
main_init ==
    /\ pc = "main"
    /\ \E nominatimOk \in BOOLEAN, googleOk \in BOOLEAN :
          /\ geocode_func' = init_geocoder(nominatimOk, secrets, googleOk)
          /\ pc' = IF geocode_func' = "None" THEN "done" ELSE "upload"
    /\ UNCHANGED <<secrets, df, i, result, location, exc, results, stats,
                   progress, calls, started, returned, tables, valid_df, ui,
                   v_address, v_result>>

\* lines 197-224 and the entry of process_addresses, lines 118-126
main_upload ==
    /\ pc = "upload"
    /\ \E file \in Uploads :
          IF file.kind = "none" THEN
              /\ pc' = "done"
              /\ UNCHANGED <<df, started>>
          ELSE IF file.kind = "unreadable" THEN
              /\ pc' = "error"
              /\ UNCHANGED <<df, started>>
          ELSE
              /\ df' = [columns |-> file.columns, rows |-> file.rows]
              /\ IF ~({"name", "address"} \subseteq file.columns)
                 THEN pc' = "done" /\ UNCHANGED started
                 ELSE pc' = "loop" /\ started' = TRUE
    /\ i' = 0
    /\ results' = <<>>
    /\ stats' = ZeroStats
    /\ UNCHANGED <<secrets, geocode_func, result, location, exc, progress,
                   calls, returned, tables, valid_df, ui, v_address, v_result>>
(* ------------------------- process_addresses -------------------------- *)
Bump(st, key) == [st EXCEPT ![key] = @ + 1]

\* variant: the validation branch lacks its append and continue
pa_row_no_continue ==
    /\ pc = "loop"
    /\ i < Len(df.rows)
    /\ LET r == NewResult(df.rows[i + 1])
       IN /\ IF ~is_valid_address(r.address)
             THEN /\ result' = [r EXCEPT !.status = "Invalid format"]
                  /\ stats' = Bump(stats, "invalid_format")
             ELSE /\ result' = r
                  /\ UNCHANGED stats
          /\ pc' = "geocode"
          /\ UNCHANGED <<results, i>>
    /\ UNCHANGED <<secrets, geocode_func, df, location, exc, progress, calls,
                   started, returned, tables, valid_df, ui, v_address,
                   v_result>>

\* lines 128-144: next row, its initial dict, the validation branch
pa_row ==
    /\ pc = "loop"
    /\ i < Len(df.rows)
    /\ LET r == NewResult(df.rows[i + 1])
       IN IF ~is_valid_address(r.address)
          THEN /\ result' = [r EXCEPT !.status = "Invalid format"]
               /\ stats' = Bump(stats, "invalid_format")
               /\ results' = Append(results, result')
               /\ i' = i + 1
               /\ pc' = "loop"
          ELSE /\ result' = r
               /\ pc' = "geocode"
               /\ UNCHANGED <<stats, results, i>>
    /\ UNCHANGED <<secrets, geocode_func, df, location, exc, progress, calls,
                   started, returned, tables, valid_df, ui, v_address,
                   v_result>>

\* lines 147-149 and 157-159: the call and the branch on its value
pa_geocode ==
    /\ pc = "geocode"
    /\ \E o \in CallOutcomes :
          /\ calls' = Append(calls, [row |-> i, provider |-> geocode_func,
                                     outcome |-> o])
          /\ IF o = "found" THEN
                 /\ location' = Some(TheLocation)
                 /\ pc' = "read"
                 /\ UNCHANGED <<result, stats, exc>>
             ELSE IF o = "none" THEN
                 /\ result' = [result EXCEPT !.status = "No results"]
                 /\ stats' = Bump(stats, "no_results")
                 /\ pc' = "append"
                 /\ UNCHANGED <<location, exc>>
             ELSE
                 /\ exc' = Some(o)
                 /\ pc' = "except"
                 /\ UNCHANGED <<location, result, stats>>
    /\ UNCHANGED <<secrets, geocode_func, df, i, results, progress, started,
                   returned, tables, valid_df, ui, v_address, v_result>>

\* variant: the fields are assigned one by one, latitude before the read
\* that can raise
pa_read_fieldwise ==
    /\ pc = "read"
    /\ \E readable \in BOOLEAN :
          IF readable
          THEN /\ result' = UpdateFound(result, location[1])
               /\ stats' = Bump(stats, "success")
               /\ pc' = "append"
               /\ UNCHANGED exc
          ELSE /\ result' = [result EXCEPT
                                !.latitude = Some(location[1].latitude)]
               /\ exc' = Some(ReadException)
               /\ pc' = "except"
               /\ UNCHANGED stats
    /\ UNCHANGED <<secrets, geocode_func, df, i, location, results, progress,
                   calls, started, returned, tables, valid_df, ui, v_address,
                   v_result>>

\* variant: the success counter is bumped before the location is read
pa_read_count_first ==
    /\ pc = "read"
    /\ stats' = Bump(stats, "success")
    /\ \E readable \in BOOLEAN :
          IF readable
          THEN /\ result' = UpdateFound(result, location[1])
               /\ pc' = "append"
               /\ UNCHANGED exc
          ELSE /\ exc' = Some(ReadException)
               /\ pc' = "except"
               /\ UNCHANGED result
    /\ UNCHANGED <<secrets, geocode_func, df, i, location, results, progress,
                   calls, started, returned, tables, valid_df, ui, v_address,
                   v_result>>

\* lines 150-156: the dict literal reads the location, then update and count
pa_read ==
    /\ pc = "read"
    /\ \E readable \in BOOLEAN :
          IF readable
          THEN /\ result' = UpdateFound(result, location[1])
               /\ stats' = Bump(stats, "success")
               /\ pc' = "append"
               /\ UNCHANGED exc
          ELSE /\ exc' = Some(ReadException)
               /\ pc' = "except"
               /\ UNCHANGED <<result, stats>>
    /\ UNCHANGED <<secrets, geocode_func, df, i, location, results, progress,
                   calls, started, returned, tables, valid_df, ui, v_address,
                   v_result>>

\* variant: the exception is not handled per row and reaches main's handler
pa_except_abort ==
    /\ pc = "except"
    /\ pc' = "error"
    /\ UNCHANGED <<secrets, geocode_func, df, i, result, location, exc,
                   results, stats, progress, calls, started, returned, tables,
                   valid_df, ui, v_address, v_result>>

\* variant: on provider-unavailable the loop switches to the secondary
\* provider and retries the row
pa_except_switch ==
    /\ pc = "except"
    /\ IF exc[1] = "GeocoderUnavailable" /\ geocode_func = "nominatim"
          /\ secrets
       THEN /\ geocode_func' = "google"
            /\ exc' = None
            /\ pc' = "geocode"
            /\ UNCHANGED <<result, stats>>
       ELSE /\ result' = UpdateError(result, exc[1])
            /\ stats' = Bump(stats, "errors")
            /\ pc' = "append"
            /\ UNCHANGED <<geocode_func, exc>>
    /\ UNCHANGED <<secrets, df, i, location, results, progress, calls,
                   started, returned, tables, valid_df, ui, v_address,
                   v_result>>

\* lines 161-166
pa_except ==
    /\ pc = "except"
    /\ result' = UpdateError(result, exc[1])
    /\ stats' = Bump(stats, "errors")
    /\ pc' = "append"
    /\ UNCHANGED <<secrets, geocode_func, df, i, location, exc, results,
                   progress, calls, started, returned, tables, valid_df, ui,
                   v_address, v_result>>

\* lines 168-170
pa_append ==
    /\ pc = "append"
    /\ results' = Append(results, result)
    /\ progress' = Append(progress, <<i + 1, Len(df.rows)>>)
    /\ i' = i + 1
    /\ location' = None
    /\ exc' = None
    /\ pc' = "loop"
    /\ UNCHANGED <<secrets, geocode_func, df, result, stats, calls, started,
                   returned, tables, valid_df, ui, v_address, v_result>>

\* lines 173-184: the loop is exhausted, the function returns
pa_return ==
    /\ pc = "loop"
    /\ i >= Len(df.rows)
    /\ returned' = TRUE
    /\ pc' = "show"
    /\ UNCHANGED <<secrets, geocode_func, df, i, result, location, exc,
                   results, stats, progress, calls, started, tables, valid_df,
                   ui, v_address, v_result>>

process_addresses ==
    \/ pa_row
    \/ pa_geocode
    \/ pa_read
    \/ pa_except
    \/ pa_append
    \/ pa_return

\* lines 227-257: the two tables; pd.DataFrame([]) has no 'status' column,
\* so geo_df['status'] raises KeyError for an empty batch (handler, line 259)
main_show ==
    /\ pc = "show"
    /\ IF results = <<>>
       THEN /\ pc' = "error"
            /\ UNCHANGED tables
       ELSE /\ tables' = Some([success |-> success_df(results),
                               failed |-> failed_df(results)])
            /\ pc' = "map"
    /\ UNCHANGED <<secrets, geocode_func, df, i, result, location, exc,
                   results, stats, progress, calls, started, returned,
                   valid_df, ui, v_address, v_result>>

(* ---------------------------- display_map ----------------------------- *)
Event(e, data) == [ev |-> e, data |-> data]

\* lines 46-59
dm_filter ==
    /\ pc = "map"
    /\ valid_df' = dropna(results)
    /\ IF valid_df' = <<>>
       THEN /\ ui' = Append(ui, Event("warning: no valid coordinates", <<>>))
            /\ pc' = "done"
       ELSE /\ pc' = "pydeck"
            /\ UNCHANGED ui
    /\ UNCHANGED <<secrets, geocode_func, df, i, result, location, exc,
                   results, stats, progress, calls, started, returned, tables,
                   v_address, v_result>>

\* variant: no return after a successful pydeck render
dm_pydeck_no_return ==
    /\ pc = "pydeck"
    /\ \E rendered \in BOOLEAN :
          IF rendered
          THEN ui' = Append(ui, Event("pydeck_chart", valid_df))
          ELSE ui' = ui \o <<Event("pydeck failed", <<>>),
                             Event("warning: PyDeck map failed", <<>>)>>
    /\ pc' = "st_map"
    /\ UNCHANGED <<secrets, geocode_func, df, i, result, location, exc,
                   results, stats, progress, calls, started, returned, tables,
                   valid_df, v_address, v_result>>

\* lines 62-107
dm_pydeck ==
    /\ pc = "pydeck"
    /\ \E rendered \in BOOLEAN :
          IF rendered
          THEN /\ ui' = Append(ui, Event("pydeck_chart", valid_df))
               /\ pc' = "done"
          ELSE /\ ui' = ui \o <<Event("pydeck failed", <<>>),
                                Event("warning: PyDeck map failed", <<>>)>>
               /\ pc' = "st_map"
    /\ UNCHANGED <<secrets, geocode_func, df, i, result, location, exc,
                   results, stats, progress, calls, started, returned, tables,
                   valid_df, v_address, v_result>>

\* lines 110-114
dm_map ==
    /\ pc = "st_map"
    /\ \E rendered \in BOOLEAN :
          IF rendered
          THEN ui' = Append(ui, Event("st.map", valid_df))
          ELSE ui' = ui \o <<Event("st.map failed", <<>>),
                             Event("error: All map rendering failed", <<>>),
                             Event("write: Valid coordinates data", valid_df)>>
    /\ pc' = "done"
    /\ UNCHANGED <<secrets, geocode_func, df, i, result, location, exc,
                   results, stats, progress, calls, started, returned, tables,
                   valid_df, v_address, v_result>>

display_map ==
    \/ dm_filter
    \/ dm_pydeck
    \/ dm_map

main ==
    \/ main_init
    \/ main_upload
    \/ main_show

Next ==
    \/ main
    \/ process_addresses
    \/ display_map

Spec == Init /\ [][Next]_vars

(* ------------------------- validator harness -------------------------- *)
\* every str of at most MaxLen characters over Alphabet, and a non-str
Addresses ==
    {StrCell(s) : s \in SeqsUpTo(Alphabet, MaxLen)} \cup {NaN}

InitValidator ==
    /\ pc = "validator"
    /\ secrets = FALSE
    /\ Idle
    /\ v_address \in Addresses
    /\ v_result = None

validate ==
    /\ pc = "validator"
    /\ v_result = None
    /\ v_result' = Some(is_valid_address(v_address))
    /\ UNCHANGED <<pc, secrets, geocode_func, df, i, result, location, exc,
                   results, stats, progress, calls, started, returned, tables,
                   valid_df, ui, v_address>>

NextValidator == validate

SpecValidator == InitValidator /\ [][NextValidator]_vars
(* ============================== claims ================================ *)
N == Len(df.rows)
Done(k) == k \in 1..Len(results)
IsErrorStatus(st) == \E e \in GeocodeExceptions \cup {ReadException} :
                        st = ErrorStatus(e)
\* the loop is between two rows, or the batch is over
AtBoundary == pc \notin {"geocode", "read", "except", "append"}
AfterBatch == pc \in {"show", "map", "pydeck", "st_map", "done", "error"}
CountStatus(P(_)) == Cardinality({k \in 1..Len(results) : P(results[k].status)})
Commas(s) == Cardinality({k \in 1..Len(s) : s[k] = ","})
Has(e) == \E k \in 1..Len(ui) : ui[k].ev = e

\* C1: whatever the per-record outcomes, the batch is never aborted and the
\* results are the input records in input order: once process_addresses has
\* been entered main only goes on after it returned, with one result per
\* row, and the k-th result carries the k-th row's name and its address (as
\* the stripped string process_addresses makes of the cell).
C1_AllRecordsInOrder ==
    /\ Len(results) <= N
    /\ \A k \in 1..Len(results) :
          /\ results[k].name = df.rows[k].name
          /\ results[k].address = strip(str(df.rows[k].address))
    /\ (started /\ ~AfterBatch) => Len(results) = i
    /\ (started /\ AfterBatch) => (returned /\ Len(results) = N)

C1_Witness ==
    /\ returned
    /\ N >= 3
    /\ \E j, k, l \in 1..Len(results) :
          /\ results[j].status = "Invalid format"
          /\ IsErrorStatus(results[k].status)
          /\ results[l].status = "No results"
    /\ df.rows[1].name # df.rows[2].name

\* C2: coordinates are present exactly in the results whose status is
\* Success, in the finished results and in the dict under construction,
\* also when reading the found location raised.
C2_CoordsIffSuccess ==
    \A r \in {results[k] : k \in 1..Len(results)} \cup {result} :
        /\ (r.latitude # None) <=> (r.status = "Success")
        /\ (r.longitude # None) <=> (r.status = "Success")

C2_Witness ==
    \E j, k \in 1..Len(results) :
        /\ results[j].status = ErrorStatus(ReadException)
        /\ results[j].latitude = None
        /\ results[k].status = "Success"
        /\ results[k].latitude = Some(TheLocation.latitude)

\* C3: a row whose address fails validation gets status Invalid format and
\* no geocode call; between rows the number of calls equals the number of
\* processed rows with a valid address.
C3_InvalidNeverCalled ==
    /\ \A k \in 1..Len(results) :
          ~(Commas(results[k].address.v) >= 2
            /\ (\E h \in 1..Len(results[k].address.v) :
                   results[k].address.v[h] \in Digits)
            /\ (\E h \in 1..Len(results[k].address.v) :
                   results[k].address.v[h] \in Letters))
          => /\ results[k].status = "Invalid format"
             /\ \A c \in 1..Len(calls) : calls[c].row # k - 1
    /\ AtBoundary =>
          Len(calls) = Cardinality({k \in 1..Len(results) :
                                       results[k].status # "Invalid format"})
    /\ \A k \in 1..Len(results) :
          results[k].status = "Invalid format"
          => ~is_valid_address(results[k].address)

C3_Witness ==
    /\ returned
    /\ Len(calls) >= 1
    /\ \E j, k \in 1..Len(results) :
          /\ results[j].status = "Invalid format"
          /\ results[k].status # "Invalid format"
    /\ Len(calls) < Len(results)

C5_ProgressEveryRecord ==
    /\ AtBoundary =>
          /\ Len(progress) = Len(results)
          /\ \A k \in 1..Len(progress) : progress[k] = <<k, N>>
    /\ (returned /\ N > 0) =>
          /\ progress # <<>>
          /\ progress[Len(progress)] = <<N, N>>

\* C6: a non-str value or a str with fewer than 3 comma-separated segments
\* (fewer than 2 commas) is reported invalid, whatever else it contains.
C6_FewSegmentsInvalid ==
    (v_result # None /\ (v_address.t # "str" \/ Commas(v_address.v) < 2))
    => v_result = Some(FALSE)

C6_Witness ==
    /\ v_result = Some(FALSE)
    /\ v_address.t = "str"
    /\ Commas(v_address.v) = 1
    /\ \E k \in 1..Len(v_address.v) : v_address.v[k] \in Digits
    /\ \E k \in 1..Len(v_address.v) : v_address.v[k] \in Letters

\* C7 as stated: the validator agrees with 'non-empty str, at least 3
\* segments, and a digit or a letter'.
C7_DigitOrLetter ==
    v_result # None =>
        v_result = Some(/\ v_address.t = "str"
                        /\ v_address.v # <<>>
                        /\ Commas(v_address.v) >= 2
                        /\ \E k \in 1..Len(v_address.v) :
                              v_address.v[k] \in Digits \cup Letters)

\* C7 amended: the validator agrees with 'non-empty str, at least 3
\* segments, a digit and a letter': an address is rejected when it has no
\* digit or no letter.
C7_DigitAndLetter ==
    v_result # None =>
        v_result = Some(/\ v_address.t = "str"
                        /\ v_address.v # <<>>
                        /\ Commas(v_address.v) >= 2
                        /\ \E k \in 1..Len(v_address.v) :
                              v_address.v[k] \in Digits
                        /\ \E k \in 1..Len(v_address.v) :
                              v_address.v[k] \in Letters)

C7_Witness ==
    /\ v_result = Some(FALSE)
    /\ v_address.t = "str"
    /\ Commas(v_address.v) >= 2
    /\ \E k \in 1..Len(v_address.v) : v_address.v[k] \in Letters
    /\ \A k \in 1..Len(v_address.v) : v_address.v[k] \notin Digits

\* C8 as stated: with a required column missing, with zero records, or with
\* no provider, main never enters process_addresses, makes no geocode call
\* and shows no result table.
C8_FatalNeverStarts ==
    (/\ pc \notin {"main", "upload"}
     /\ \/ geocode_func = "None"
        \/ ~({"name", "address"} \subseteq df.columns)
        \/ df.rows = <<>>)
    => /\ ~started
       /\ calls = <<>>
       /\ tables = None

\* C9: the pydeck renderer is tried first; st.map is tried exactly when
\* pydeck raised; the final error and the point data are written exactly
\* when both raised; after a successful pydeck render nothing follows.
C9_RenderFallback ==
    /\ (Has("st.map") \/ Has("st.map failed")) => Has("pydeck failed")
    /\ (pc = "done" /\ Has("pydeck failed"))
          => (Has("st.map") \/ Has("st.map failed"))
    /\ (Has("error: All map rendering failed")
           \/ Has("write: Valid coordinates data"))
          <=> (Has("pydeck failed") /\ Has("st.map failed"))
    /\ Has("st.map failed") =>
          /\ ui[Len(ui)] = Event("write: Valid coordinates data",
                                 dropna(results))
          /\ ui[Len(ui) - 1].ev = "error: All map rendering failed"
    /\ Has("pydeck_chart") =>
          /\ pc = "done"
          /\ ui = <<Event("pydeck_chart", dropna(results))>>
    /\ ~(Has("st.map") /\ Has("st.map failed"))

C9_Witness ==
    /\ pc = "done"
    /\ Has("pydeck failed")
    /\ Has("st.map failed")
    /\ Has("write: Valid coordinates data")

\* C10: between rows and after the batch each counter of stats equals the
\* number of results with the matching status, the counters sum to the
\* number of results, and no result is still Pending.
C10_StatsMatchResults ==
    AtBoundary =>
        /\ stats.success = CountStatus(LAMBDA st : st = "Success")
        /\ stats.invalid_format = CountStatus(LAMBDA st : st = "Invalid format")
        /\ stats.no_results = CountStatus(LAMBDA st : st = "No results")
        /\ stats.errors = CountStatus(IsErrorStatus)
        /\ stats.success + stats.invalid_format + stats.no_results
              + stats.errors = Len(results)
        /\ \A k \in 1..Len(results) : results[k].status # "Pending"

C10_Witness ==
    /\ returned
    /\ stats.success >= 1
    /\ stats.invalid_format >= 1
    /\ stats.errors >= 1
    /\ \E k \in 1..Len(results) :
          results[k].status = ErrorStatus(ReadException)
====
